---- MODULE Spec2Model ----
(***************************************************************************)
(* Authentication resolution and rate limiting of the GA4 realtime API     *)
(* gateway (services/auth_service.py, oauth.py, models.py).                *)
(*                                                                         *)
(* A request is resolved by AuthService.verify_authentication; each action *)
(* below is the code that runs between two suspension points (awaits) of   *)
(* that coroutine.  Exceptions raised by a database round trip, a commit   *)
(* or the OAuth provider are nondeterministic choices of the action that   *)
(* resumes after the await.                                                *)
(***************************************************************************)
EXTENDS Integers, Sequences, FiniteSets, TLC

(* ---------------------------- bounds ----------------------------------- *)
MaxN == 2        \* largest max_requests of a limiter instance
MaxW == 2        \* largest time_window of a limiter instance
MaxTime == 3     \* the clock stops advancing here
MaxIssued == 2   \* access tokens the OAuth provider issues at most
MaxKeys == 2     \* API keys the key-management endpoint creates at most
TokenLifetime == 1   \* expires_in of a token the provider issues

(* ------------------------- Python values ------------------------------- *)
NoneStr == "None"          \* Python None where a str is expected
NoneId == 0                \* Python None where a row id is expected

Truthy(s) == s # NoneStr /\ s # ""

VARIABLES
  now,             \* time.time() / datetime.utcnow(), in seconds
  max_requests,    \* RateLimiter.max_requests
  time_window,     \* RateLimiter.time_window
  requests,        \* RateLimiter.requests : identifier -> list of timestamps
  cfg,             \* AuthService configuration read from the environment
  users,           \* table users
  oauth_tokens,    \* table oauth_tokens
  user_api_keys,   \* table user_api_keys
  ga4_properties,  \* table ga4_properties
  issued,          \* number of access tokens the OAuth provider has issued
  req,             \* the requests being resolved (locals of each coroutine)
  admitted,        \* history: per identifier, the last max_requests admitted timestamps
  calls,           \* history: the is_allowed calls made by the latest step
  clients          \* environment: the credentials the clients send

vars == << now, max_requests, time_window, requests, cfg, users, oauth_tokens,
           user_api_keys, ga4_properties, issued, req, admitted, calls, clients >>

(* ------------------------- RateLimiter --------------------------------- *)
\* self.requests[identifier] after "if identifier not in self.requests: ... = []"
Bucket(reqs, identifier) ==
  IF identifier \in DOMAIN reqs THEN reqs[identifier] ELSE << >>

\* the list comprehension that drops expired records
Prune(lst, t) == SelectSeq(lst, LAMBDA req_time : t - req_time < time_window)

SetBucket(reqs, identifier, lst) ==
  [k \in DOMAIN reqs \cup {identifier} |-> IF k = identifier THEN lst ELSE reqs[k]]

\* mutant: the limit test is off by one (> instead of >=)
is_allowed_offbyone(reqs, identifier, t) ==
  LET kept == Prune(Bucket(reqs, identifier), t) IN
  IF Len(kept) > max_requests
    THEN [allowed |-> FALSE, requests |-> SetBucket(reqs, identifier, kept)]
    ELSE [allowed |-> TRUE,  requests |-> SetBucket(reqs, identifier, Append(kept, t))]

\* mutant: the timestamps of every identifier go to one list
is_allowed_shared(reqs, identifier, t) ==
  LET kept == Prune(Bucket(reqs, "all"), t) IN
  IF Len(kept) >= max_requests
    THEN [allowed |-> FALSE, requests |-> SetBucket(reqs, "all", kept)]
    ELSE [allowed |-> TRUE,  requests |-> SetBucket(reqs, "all", Append(kept, t))]

\* mutant: a rejected call is recorded too
is_allowed_recordall(reqs, identifier, t) ==
  LET kept == Prune(Bucket(reqs, identifier), t) IN
  [allowed |-> Len(kept) < max_requests,
   requests |-> SetBucket(reqs, identifier, Append(kept, t))]

\* mutant: expired records are not dropped before counting
is_allowed_noprune(reqs, identifier, t) ==
  LET kept == Bucket(reqs, identifier) IN
  IF Len(kept) >= max_requests
    THEN [allowed |-> FALSE, requests |-> SetBucket(reqs, identifier, kept)]
    ELSE [allowed |-> TRUE,  requests |-> SetBucket(reqs, identifier, Append(kept, t))]

\* RateLimiter.is_allowed(identifier) called at time t
is_allowed(reqs, identifier, t) ==
  LET kept == Prune(Bucket(reqs, identifier), t) IN
  IF Len(kept) >= max_requests
    THEN [allowed |-> FALSE, requests |-> SetBucket(reqs, identifier, kept)]
    ELSE [allowed |-> TRUE,  requests |-> SetBucket(reqs, identifier, Append(kept, t))]

(* history bookkeeping of is_allowed calls (not program state) *)
LastN(s) == IF Len(s) <= max_requests THEN s ELSE SubSeq(s, Len(s) - max_requests + 1, Len(s))

\* the record of one call: the list before and after, the result, and the
\* admitted history of the identifier before the call
CallRec(reqs, adm, identifier, t, rl) ==
  [key |-> identifier, now |-> t, allowed |-> rl.allowed,
   before |-> Bucket(reqs, identifier), after |-> Bucket(rl.requests, identifier),
   hist |-> Bucket(adm, identifier)]

Admit(adm, identifier, t, rl) ==
  IF rl.allowed
    THEN SetBucket(adm, identifier, LastN(Append(Bucket(adm, identifier), t)))
    ELSE adm

(* ------------------------- configuration ------------------------------- *)
\* os.getenv("GA4_PROPERTY_ID")
GA4_PROPERTY_ID == "000"

\* the table _load_api_keys builds from API_KEY_JOEY=sk1, API_KEY_OPS=dual
LoadedApiKeys == [k \in {"sk1", "dual"} |-> IF k = "sk1" THEN "joey" ELSE "ops"]

\* self.API_KEYS = self._load_api_keys() if self.ENABLE_API_KEY_MODE else {}
API_KEYS ==
  IF cfg.ENABLE_API_KEY_MODE THEN LoadedApiKeys ELSE [k \in {} |-> ""]

\* the db argument of verify_authentication: the session yielded by get_db
DbPresent == TRUE

(* ------------------------- request and response ------------------------ *)
Reqs == {1}

NoAuth == [present |-> FALSE, scheme |-> "", token |-> ""]
Header(scheme, token) == [present |-> TRUE, scheme |-> scheme, token |-> token]

\* authorization.startswith("Bearer ")
StartsWithBearer(authorization) == authorization.scheme = "Bearer"
\* authorization.replace("Bearer ", "")
StripBearer(authorization) == authorization.token

\* raise HTTPException(status_code, detail); missing_auth is the list joined
\* into the detail of the "authentication required" error
HTTPException(status_code, detail, missing_auth) ==
  [status |-> status_code, detail |-> detail, missing_auth |-> missing_auth,
   user_name |-> NoneStr, user_type |-> NoneStr, user_id |-> NoneId,
   ga4_property_id |-> NoneStr, access_token |-> NoneStr]

\* an exception that is not an HTTPException leaving the coroutine
Unhandled == HTTPException(500, "unhandled", << >>)

AuthenticationResult(user_name, user_type, user_id, ga4_property_id, access_token) ==
  [status |-> 200, detail |-> "", missing_auth |-> << >>,
   user_name |-> user_name, user_type |-> user_type, user_id |-> user_id,
   ga4_property_id |-> ga4_property_id, access_token |-> access_token]

NoResp == HTTPException(0, "", << >>)
\* no response of an endpoint handler yet
NoOut == [status |-> 0, body |-> "", property_id |-> NoneStr, rows |-> {}]
NoTokens == [access_token |-> NoneStr, refresh_token |-> NoneStr]

\* nothing recorded of the state a request found
NoBefore == [requests |-> << >>, oauth_tokens |-> << >>, user_api_keys |-> << >>]

ReqIdle ==
  [pc |-> "idle", x_api_key |-> NoneStr, authorization |-> NoAuth,
   user |-> NoneId, token |-> NoneStr, row |-> NoneId, new_tokens |-> NoTokens,
   revoke |-> {}, stamp |-> 0, resp |-> NoResp,
   \* history of this request: how the user-key query with the X-API-Key
   \* ended ("no" query, "raised", "miss", "hit"), whether the static table
   \* was consulted, which branch of verify_authentication ran
   userLookup |-> "no", staticLookup |-> FALSE, branch |-> "none",
   \* how the commit of last_used_at ended: "no" commit, "ok", "failed"
   keyCommit |-> "no",
   \* history: the limiter lists and the token and key tables as the request
   \* found them
   before |-> NoBefore,
   \* history of the order of arrival and of the limiter checks: the requests
   \* that were being resolved when this one arrived, the identifier of the
   \* limiter check this request made, and the requests of "ahead" that had
   \* made no limiter check when this one made its own
   ahead |-> {}, limKey |-> NoneStr, overtook |-> {},
   \* history of the OAuth path: the token row the bearer token matched,
   \* whether it was expired, and the access token a committed refresh stored
   presented |-> NoneId, expired |-> FALSE, refreshed |-> NoneStr,
   \* how the property queries ended: "no" query, "raised" by the store,
   \* "several" default rows, the "default" row, the "first" active row, "none"
   propQuery |-> "no",
   \* the endpoint handler that ran with the identity, the GA4 API requests
   \* it issued (history) and its response
   endpoint |-> "none", sent |-> << >>, out |-> NoOut]

\* the coroutine returns or raises: its locals are gone
Finish(q, resp) ==
  [q EXCEPT !.pc = "done", !.resp = resp, !.user = NoneId, !.token = NoneStr,
            !.row = NoneId, !.new_tokens = NoTokens, !.revoke = {},
            !.stamp = 0]

(* ------------------------- table queries ------------------------------- *)
Rows(table) == DOMAIN table

\* mutant: the query does not filter on is_revoked
OAuthTokenRows_revoked(token) ==
  {i \in Rows(oauth_tokens) :
     /\ oauth_tokens[i].access_token = token
     /\ users[oauth_tokens[i].user_id].is_active}

\* select(User, OAuthToken).join(OAuthToken).where(access_token == token,
\*   is_revoked == False, User.is_active == True)
OAuthTokenRows(token) ==
  {i \in Rows(oauth_tokens) :
     /\ oauth_tokens[i].access_token = token
     /\ ~oauth_tokens[i].is_revoked
     /\ users[oauth_tokens[i].user_id].is_active}

\* mutant: the query does not filter on the key's is_active flag
UserApiKeyRows_anykey(x_api_key) ==
  {i \in Rows(user_api_keys) :
     /\ user_api_keys[i].api_key = x_api_key
     /\ users[user_api_keys[i].user_id].is_active}

\* select(UserApiKey, User, GoogleAnalyticsProperty) ... where(api_key == x_api_key,
\*   UserApiKey.is_active == True, User.is_active == True).limit(1)
UserApiKeyRows(x_api_key) ==
  {i \in Rows(user_api_keys) :
     /\ user_api_keys[i].api_key = x_api_key
     /\ user_api_keys[i].is_active
     /\ users[user_api_keys[i].user_id].is_active}

\* result.first(): the first row in store order, or none
First(rows) == IF rows = {} THEN NoneId ELSE CHOOSE i \in rows : \A j \in rows : i <= j

\* is_expired: datetime.utcnow() > self.expires_at
is_expired(tok) == now > tok.expires_at

(* ------------------------- verify_authentication ----------------------- *)
OAuthAvailable == cfg.ENABLE_OAUTH_MODE /\ cfg.oauth_enabled

\* mutant: the API key is tried before the bearer token
AuthBranch_keyfirst(x_api_key, authorization) ==
  IF Truthy(x_api_key) /\ cfg.ENABLE_API_KEY_MODE THEN "api_key"
  ELSE IF authorization.present /\ StartsWithBearer(authorization)
          /\ OAuthAvailable /\ DbPresent THEN "oauth"
  ELSE "none"

\* the if / elif / else of verify_authentication
AuthBranch(x_api_key, authorization) ==
  IF authorization.present /\ StartsWithBearer(authorization)
     /\ cfg.ENABLE_OAUTH_MODE /\ cfg.oauth_enabled /\ DbPresent THEN "oauth"
  ELSE IF Truthy(x_api_key) /\ cfg.ENABLE_API_KEY_MODE THEN "api_key"
  ELSE "none"

\* mutant: the message always names both credential forms
MissingAuth_both ==
  << "Authorization Bearer token", "X-API-Key header" >>

\* the list missing_auth of the else branch
MissingAuth ==
  (IF cfg.ENABLE_OAUTH_MODE /\ cfg.oauth_enabled
     THEN << "Authorization Bearer token" >> ELSE << >>)
  \o (IF cfg.ENABLE_API_KEY_MODE THEN << "X-API-Key header" >> ELSE << >>)

\* the else branch: no credential was supplied
NoCredential ==
  IF MissingAuth = << >>
    THEN HTTPException(503, "no_auth_configured", << >>)
    ELSE HTTPException(401, "auth_required", MissingAuth)

(* ------------------------- _verify_api_key ----------------------------- *)
\* mutant: the static branch returns without the limiter check
StaticKeyCheck_nolimit(reqs, adm, x_api_key, t) ==
  IF x_api_key \in DOMAIN API_KEYS
    THEN [resp |-> AuthenticationResult(API_KEYS[x_api_key], "api_key",
                                        NoneId, GA4_PROPERTY_ID, NoneStr),
          requests |-> reqs, admitted |-> adm, calls |-> << >>]
    ELSE [resp |-> HTTPException(401, "invalid_api_key", << >>),
          requests |-> reqs, admitted |-> adm, calls |-> << >>]

\* the static part of _verify_api_key (after the try block): the result, the
\* limiter state and the limiter calls it makes
StaticKeyCheck(reqs, adm, x_api_key, t) ==
  IF x_api_key \in DOMAIN API_KEYS
    THEN LET key == "api_key_" \o x_api_key
             rl == is_allowed(reqs, key, t) IN
         [resp |-> IF rl.allowed
                     THEN AuthenticationResult(API_KEYS[x_api_key], "api_key",
                                               NoneId, GA4_PROPERTY_ID, NoneStr)
                     ELSE HTTPException(429, "rate_limited", << >>),
          requests |-> rl.requests,
          admitted |-> Admit(adm, key, t, rl),
          calls |-> << CallRec(reqs, adm, key, t, rl) >>]
    ELSE [resp |-> HTTPException(401, "invalid_api_key", << >>),
          requests |-> reqs, admitted |-> adm, calls |-> << >>]

\* exceptions: a database/provider error, or an HTTPException carrying its response
OtherError == [http |-> FALSE, resp |-> Unhandled]
Http(resp) == [http |-> TRUE, resp |-> resp]

\* the "except Exception" of the try block around the user-key lookup: it
\* catches every exception raised inside, HTTPException included (HTTPException
\* is a subclass of Exception), logs it and lets the function continue
UserKeyHandler(exc) == "continue"

\* history: the request made its limiter check under identifier key
Checked(q, key) ==
  [q EXCEPT !.limKey = key,
            !.overtook = {o \in q.ahead : req[o].limKey = NoneStr}]

\* the rest of _verify_api_key once the user-key part did not return
ToStatic(r, q, reqs, adm, made) ==
  LET sc == StaticKeyCheck(reqs, adm, q.x_api_key, now)
      q1 == IF sc.calls = << >> THEN q ELSE Checked(q, sc.calls[1].key) IN
  /\ req' = [req EXCEPT ![r] = Finish([q1 EXCEPT !.staticLookup = TRUE], sc.resp)]
  /\ requests' = sc.requests
  /\ admitted' = sc.admitted
  /\ calls' = made \o sc.calls

\* an exception raised inside the try block of _verify_api_key
UserKeyRaise(r, q, exc, reqs, adm, made) ==
  IF UserKeyHandler(exc) = "continue"
    THEN ToStatic(r, q, reqs, adm, made)
    ELSE /\ req' = [req EXCEPT ![r] = Finish(q, exc.resp)]
         /\ requests' = reqs
         /\ admitted' = adm
         /\ calls' = made

\* mutant: a key bound to no property resolves to no property
KeyProperty_nodefault(row) ==
  IF user_api_keys[row].property_id # NoneId
    THEN ga4_properties[user_api_keys[row].property_id].property_id
    ELSE NoneStr

\* mutant: the join keeps active properties only
KeyProperty_activeonly(row) ==
  IF /\ user_api_keys[row].property_id # NoneId
     /\ ga4_properties[user_api_keys[row].property_id].is_active
    THEN ga4_properties[user_api_keys[row].property_id].property_id
    ELSE GA4_PROPERTY_ID

\* property_obj.property_id if property_obj else self.GA4_PROPERTY_ID
KeyProperty(row) ==
  IF user_api_keys[row].property_id # NoneId
    THEN ga4_properties[user_api_keys[row].property_id].property_id
    ELSE GA4_PROPERTY_ID

(* ------------------------------ state ---------------------------------- *)
InitUsers ==
  << [email |-> "u1@example.com", is_active |-> TRUE],
     [email |-> "u2@example.com", is_active |-> FALSE] >>

InitTokens(rt) ==
  << [user_id |-> 1, access_token |-> "at1", refresh_token |-> rt,
      expires_at |-> 1, is_revoked |-> FALSE],
     [user_id |-> 1, access_token |-> "atrev", refresh_token |-> "rt0",
      expires_at |-> MaxTime + 1, is_revoked |-> TRUE],
     [user_id |-> 2, access_token |-> "atina", refresh_token |-> NoneStr,
      expires_at |-> MaxTime + 1, is_revoked |-> FALSE] >>

NoTime == 0 - 1     \* last_used_at IS NULL

\* the user's active key is either "uk1", bound to a property, or "dual", bound
\* to none and configured as a static key as well
InitKeys(active) ==
  << (IF active = "uk1"
        THEN [api_key |-> "uk1",  user_id |-> 1, property_id |-> 1,      is_active |-> TRUE, last_used_at |-> NoTime]
        ELSE [api_key |-> "dual", user_id |-> 1, property_id |-> NoneId, is_active |-> TRUE, last_used_at |-> NoTime]),
     [api_key |-> "ukdel", user_id |-> 1, property_id |-> NoneId, is_active |-> FALSE, last_used_at |-> NoTime],
     [api_key |-> "ukina", user_id |-> 2, property_id |-> NoneId, is_active |-> TRUE,  last_used_at |-> NoTime] >>

\* the properties of user 1: which of the two rows is flagged default, and
\* whether the rows are active
InitProperties(props) ==
  << [user_id |-> 1, property_id |-> "111",
      is_default |-> props \in {"default_first", "default_inactive", "two_defaults"},
      is_active |-> props \notin {"none_active", "default_inactive"}],
     [user_id |-> 1, property_id |-> "222",
      is_default |-> props \in {"default_last", "two_defaults"},
      is_active |-> props # "none_active"] >>

\* the X-API-Key and Authorization headers a client may send
\* the credentials in circulation: clients.keys are the X-API-Key values sent
\* alone; when clients.bearer, bearer and basic Authorization headers are sent,
\* alone or next to the user's active key
ActiveKey == user_api_keys[1].api_key
KeyClients ==
  [keys |-> {NoneStr, "", "nokey", "ukdel", "ukina", ActiveKey}
            \cup (IF ActiveKey = "dual" THEN {} ELSE {"sk1"}),
   bearer |-> FALSE]
BearerClients == [keys |-> {NoneStr}, bearer |-> TRUE]

BearerInputs ==
  {Header("Bearer", t) :
     t \in {"bogus"} \cup {oauth_tokens[i].access_token : i \in Rows(oauth_tokens)}}
RequestInputs ==
  {<< k, NoAuth >> : k \in clients.keys}
  \cup (IF clients.bearer
         THEN {<< NoneStr, h >> : h \in BearerInputs \cup {Header("Basic", "at1")}}
              \cup {<< ActiveKey, Header(sch, t) >> :
                       sch \in {"Bearer", "Basic"}, t \in {"at1", "bogus"}}
         ELSE {})

Cfg(oauth_mode, api_key_mode, handler_enabled) ==
  [ENABLE_OAUTH_MODE |-> oauth_mode, ENABLE_API_KEY_MODE |-> api_key_mode,
   oauth_enabled |-> handler_enabled]
AllCfg ==
  [ENABLE_OAUTH_MODE : BOOLEAN, ENABLE_API_KEY_MODE : BOOLEAN, oauth_enabled : BOOLEAN]

\* the deployments explored: configuration, the user's active key, the refresh
\* token of "at1", the properties of the user, and the clients
Scenarios ==
  {[cfg |-> c, active |-> "uk1", rt |-> "rt1", props |-> "default_last", bearer |-> FALSE] :
     c \in AllCfg}
  \cup {[cfg |-> Cfg(TRUE, TRUE, TRUE), active |-> "dual", rt |-> "rt1",
         props |-> "default_last", bearer |-> FALSE]}
  \cup {[cfg |-> Cfg(TRUE, TRUE, TRUE), active |-> "uk1", rt |-> "rt1",
         props |-> "default_last", bearer |-> TRUE]}
  \cup {[cfg |-> Cfg(TRUE, TRUE, TRUE), active |-> "uk1", rt |-> NoneStr,
         props |-> p, bearer |-> TRUE] :
           p \in {"default_last", "default_first", "no_default", "none_active",
                  "default_inactive", "two_defaults"}}
  \cup {[cfg |-> c, active |-> "dual", rt |-> "rt1", props |-> "default_last", bearer |-> TRUE] :
         c \in {Cfg(FALSE, TRUE, TRUE), Cfg(TRUE, TRUE, FALSE)}}

InitStore(sc) ==
  /\ now = 0
  /\ requests = [k \in {} |-> << >>]
  /\ admitted = [k \in {} |-> << >>]
  /\ calls = << >>
  /\ cfg = sc.cfg
  /\ users = InitUsers
  /\ oauth_tokens = InitTokens(sc.rt)
  /\ user_api_keys = InitKeys(sc.active)
  /\ ga4_properties = InitProperties(sc.props)
  /\ issued = 0
  /\ req = [r \in Reqs |-> ReqIdle]
  /\ clients = IF sc.bearer THEN BearerClients ELSE KeyClients

Init ==
  /\ \E sc \in Scenarios : InitStore(sc)
  /\ max_requests = MaxN
  /\ time_window = MaxW

store == << users, oauth_tokens, user_api_keys, ga4_properties, issued >>
limiter == << requests, admitted >>
config == << max_requests, time_window, cfg, clients >>

(* ------------------------------ actions -------------------------------- *)
\* time passes (the instant a coroutine returns is observed before the clock
\* moves on)
Tick ==
  /\ now < MaxTime
  /\ \A r \in DOMAIN req : req[r].pc \notin {"done", "handled"}
  /\ now' = now + 1
  /\ calls' = << >>
  /\ UNCHANGED << config, store, requests, admitted, req >>

\* the request is over: its record is dropped, also from the histories of
\* the requests still being resolved
Forget(r) ==
  [o \in DOMAIN req |->
     IF o = r THEN ReqIdle
     ELSE [req[o] EXCEPT !.ahead = @ \ {r}, !.overtook = @ \ {r}]]

\* the response (or the identity) is handed to the caller
Respond(r) ==
  /\ req[r].pc = "done"
  /\ req' = Forget(r)
  /\ calls' = << >>
  /\ UNCHANGED << now, config, store, requests, admitted >>

\* verify_authentication up to its first await, for the headers of input
Begin(r, input) ==
  LET x_api_key == input[1]
      authorization == input[2]
      branch == AuthBranch(x_api_key, authorization)
      q == [ReqIdle EXCEPT !.x_api_key = x_api_key,
                           !.authorization = authorization,
                           !.branch = branch,
                           !.ahead = {o \in DOMAIN req \ {r} : req[o].pc # "idle"},
                           !.before = [requests |-> requests,
                                       oauth_tokens |-> oauth_tokens,
                                       user_api_keys |-> user_api_keys]]
  IN  /\ branch = "oauth" =>
           /\ req' = [req EXCEPT ![r] =
                        [q EXCEPT !.pc = "oauth_lookup",
                                  !.token = StripBearer(authorization)]]
           /\ UNCHANGED limiter /\ calls' = << >>
      /\ branch = "api_key" =>
           IF DbPresent
             THEN /\ req' = [req EXCEPT ![r] = [q EXCEPT !.pc = "key_lookup"]]
                  /\ UNCHANGED limiter /\ calls' = << >>
             ELSE ToStatic(r, q, requests, admitted, << >>)
      /\ branch = "none" =>
           /\ req' = [req EXCEPT ![r] = Finish(q, NoCredential)]
           /\ UNCHANGED limiter /\ calls' = << >>

\* a request arrives while no other is being resolved
Start(r) ==
  /\ \A o \in Reqs : req[o].pc = "idle"
  /\ \E input \in RequestInputs : Begin(r, input)
  /\ UNCHANGED << now, config, store >>

\* _verify_api_key: the user-key query returns (or raises); on a row, the
\* limiter check and the assignment of last_used_at, up to "await db.commit()"
KeyLookup(r) ==
  /\ req[r].pc = "key_lookup"
  /\ \E ok \in BOOLEAN :
       LET row == First(UserApiKeyRows(req[r].x_api_key))
           q0 == [req[r] EXCEPT !.userLookup = IF ~ok THEN "raised"
                                               ELSE IF row = NoneId THEN "miss"
                                               ELSE "hit"]
       IN  IF ~ok
             THEN UserKeyRaise(r, q0, OtherError, requests, admitted, << >>)
           ELSE IF row = NoneId
             THEN ToStatic(r, q0, requests, admitted, << >>)
           ELSE
             LET user == user_api_keys[row].user_id
                 key == "user_api_key_" \o ToString(user)
                 rl == is_allowed(requests, key, now)
                 made == << CallRec(requests, admitted, key, now, rl) >>
                 q == Checked(q0, key)
             IN  IF ~rl.allowed
                   THEN UserKeyRaise(r, q,
                          Http(HTTPException(429, "rate_limited", << >>)),
                          rl.requests, admitted, made)
                   ELSE /\ req' = [req EXCEPT ![r] =
                                     [q EXCEPT !.pc = "key_commit", !.row = row,
                                               !.user = user, !.stamp = now]]
                        /\ requests' = rl.requests
                        /\ admitted' = Admit(admitted, key, now, rl)
                        /\ calls' = made
  /\ UNCHANGED << now, config, store >>

\* _verify_api_key: the commit of last_used_at returns (or raises)
KeyCommit(r) ==
  /\ req[r].pc = "key_commit"
  /\ LET q == req[r] IN
     \E ok \in BOOLEAN :
       IF ok
         THEN /\ user_api_keys' = [user_api_keys EXCEPT ![q.row].last_used_at = q.stamp]
              /\ req' = [req EXCEPT ![r] = Finish([q EXCEPT !.keyCommit = "ok"],
                           AuthenticationResult(users[q.user].email, "user_api_key",
                                                q.user, KeyProperty(q.row), NoneStr))]
              /\ UNCHANGED limiter /\ calls' = << >>
         ELSE /\ UserKeyRaise(r, [q EXCEPT !.keyCommit = "failed"], OtherError,
                              requests, admitted, << >>)
              /\ UNCHANGED user_api_keys
  /\ UNCHANGED << now, config, users, oauth_tokens, ga4_properties, issued >>

(* ------------------------- _verify_oauth_token ------------------------- *)
\* mutant: no except clause around the body of _verify_oauth_token
OAuthHandler_none(exc) == exc.resp

\* "except HTTPException: raise" / "except Exception: raise HTTPException(401)"
OAuthHandler(exc) ==
  IF exc.http THEN exc.resp ELSE HTTPException(401, "oauth_failed", << >>)

\* the "except Exception" of refresh_user_token: return None, and the caller
\* raises 401 "token expired"
RefreshFailed == Http(HTTPException(401, "token_expired", << >>))

OAuthRaise(r, q, exc) ==
  req' = [req EXCEPT ![r] = Finish(q, OAuthHandler(exc))]

\* mutant: the limiter counts the list as it was when the request arrived
\* (the count and the append are split by the awaits of the resolution)
OAuthRateLimit_stale(r, q0) ==
  LET key == "oauth_" \o ToString(q0.user)
      kept == Prune(Bucket(requests, key), now)
      allowed == Len(Prune(Bucket(q0.before.requests, key), now)) < max_requests
      rl == [allowed |-> allowed,
             requests |-> SetBucket(requests, key,
                                    IF allowed THEN Append(kept, now) ELSE kept)]
      q == Checked(q0, key)
  IN  /\ requests' = rl.requests
      /\ admitted' = Admit(admitted, key, now, rl)
      /\ calls' = << CallRec(requests, admitted, key, now, rl) >>
      /\ IF rl.allowed
           THEN req' = [req EXCEPT ![r] = [q EXCEPT !.pc = "prop_default"]]
           ELSE OAuthRaise(r, q, Http(HTTPException(429, "rate_limited", << >>)))

\* the limiter check of _verify_oauth_token, up to the await inside
\* _get_user_default_property
OAuthRateLimit(r, q0) ==
  LET key == "oauth_" \o ToString(q0.user)
      rl == is_allowed(requests, key, now)
      q == Checked(q0, key)
  IN  /\ requests' = rl.requests
      /\ admitted' = Admit(admitted, key, now, rl)
      /\ calls' = << CallRec(requests, admitted, key, now, rl) >>
      /\ IF rl.allowed
           THEN req' = [req EXCEPT ![r] = [q EXCEPT !.pc = "prop_default"]]
           ELSE OAuthRaise(r, q, Http(HTTPException(429, "rate_limited", << >>)))

\* the token query returns (or raises); a live token goes on to the limiter,
\* an expired one to refresh_user_token
OAuthLookup(r) ==
  /\ req[r].pc = "oauth_lookup"
  /\ \E ok \in BOOLEAN :
       LET q == req[r]
           row == First(OAuthTokenRows(q.token))
       IN  IF ~ok
             THEN OAuthRaise(r, q, OtherError) /\ UNCHANGED limiter /\ calls' = << >>
           ELSE IF row = NoneId
             THEN /\ OAuthRaise(r, q, Http(HTTPException(401, "invalid_token", << >>)))
                  /\ UNCHANGED limiter /\ calls' = << >>
           ELSE
             LET q1 == [q EXCEPT !.row = row, !.user = oauth_tokens[row].user_id,
                                 !.presented = row,
                                 !.expired = is_expired(oauth_tokens[row])] IN
             IF is_expired(oauth_tokens[row])
               THEN /\ req' = [req EXCEPT ![r] = [q1 EXCEPT !.pc = "refresh_lookup"]]
                    /\ UNCHANGED limiter /\ calls' = << >>
               ELSE OAuthRateLimit(r, q1)
  /\ UNCHANGED << now, config, store >>

\* mutant: the query does not require a refresh token
RefreshTokenRows_anyrow(user_id) ==
  {i \in Rows(oauth_tokens) :
     oauth_tokens[i].user_id = user_id /\ ~oauth_tokens[i].is_revoked}

\* select(OAuthToken).where(user_id, refresh_token IS NOT NULL, is_revoked == False)
RefreshTokenRows(user_id) ==
  {i \in Rows(oauth_tokens) :
     /\ oauth_tokens[i].user_id = user_id
     /\ oauth_tokens[i].refresh_token # NoneStr
     /\ ~oauth_tokens[i].is_revoked}

\* refresh_user_token: the refresh-token query returns (or raises, outside the
\* try of refresh_user_token); scalar_one_or_none raises on several rows
RefreshLookup(r) ==
  /\ req[r].pc = "refresh_lookup"
  /\ \E ok \in BOOLEAN :
       LET q == req[r]
           rows == RefreshTokenRows(q.user)
       IN  IF ~ok \/ Cardinality(rows) > 1
             THEN OAuthRaise(r, q, OtherError)
           ELSE IF rows = {}
             THEN OAuthRaise(r, q, RefreshFailed)
           ELSE req' = [req EXCEPT ![r] = [q EXCEPT !.pc = "refresh_provider"]]
  /\ UNCHANGED << now, config, store, limiter >> /\ calls' = << >>

\* oauth_handler.refresh_access_token returns new tokens (or raises)
RefreshProvider(r) ==
  /\ req[r].pc = "refresh_provider"
  /\ LET q == req[r] IN
     \/ /\ OAuthRaise(r, q, RefreshFailed)
        /\ UNCHANGED issued
     \/ /\ issued < MaxIssued
        /\ issued' = issued + 1
        /\ \E rt \in {NoneStr, "rt1"} :
             req' = [req EXCEPT ![r] =
                       [q EXCEPT !.pc = "refresh_save",
                                 !.new_tokens = [access_token |-> "new" \o ToString(issued + 1),
                                                 refresh_token |-> rt]]]
  /\ calls' = << >>
  /\ UNCHANGED << now, config, users, oauth_tokens, user_api_keys, ga4_properties, limiter >>

\* mutant: save_oauth_token revokes no existing row
LiveTokenRows_none(user_id) == {}

\* mutant: save_oauth_token revokes only the rows that have not expired
LiveTokenRows_unexpired(user_id) ==
  {i \in Rows(oauth_tokens) :
     /\ oauth_tokens[i].user_id = user_id /\ ~oauth_tokens[i].is_revoked
     /\ ~is_expired(oauth_tokens[i])}

\* save_oauth_token: select(OAuthToken).where(user_id, is_revoked == False)
LiveTokenRows(user_id) ==
  {i \in Rows(oauth_tokens) :
     oauth_tokens[i].user_id = user_id /\ ~oauth_tokens[i].is_revoked}

\* save_oauth_token: the query for the existing tokens returns (or raises);
\* the rows are marked revoked and the new row is added in the session
RefreshSave(r) ==
  /\ req[r].pc = "refresh_save"
  /\ \E ok \in BOOLEAN :
       LET q == req[r] IN
       IF ~ok
         THEN OAuthRaise(r, q, RefreshFailed)
         ELSE req' = [req EXCEPT ![r] =
                        [q EXCEPT !.pc = "refresh_commit",
                                  !.revoke = LiveTokenRows(q.user),
                                  !.stamp = now + TokenLifetime]]
  /\ UNCHANGED << now, config, store, limiter >> /\ calls' = << >>

\* refresh_user_token: the commit returns (or raises); on success the new
\* access token replaces the presented one and the limiter check follows
RefreshCommit(r) ==
  /\ req[r].pc = "refresh_commit"
  /\ LET q == req[r] IN
     \E ok \in BOOLEAN :
       IF ~ok
         THEN /\ OAuthRaise(r, q, RefreshFailed)
              /\ UNCHANGED << oauth_tokens, limiter >> /\ calls' = << >>
         ELSE /\ oauth_tokens' =
                   Append([i \in Rows(oauth_tokens) |->
                             IF i \in q.revoke
                               THEN [oauth_tokens[i] EXCEPT !.is_revoked = TRUE]
                               ELSE oauth_tokens[i]],
                          [user_id |-> q.user,
                           access_token |-> q.new_tokens.access_token,
                           refresh_token |-> q.new_tokens.refresh_token,
                           expires_at |-> q.stamp, is_revoked |-> FALSE])
              /\ OAuthRateLimit(r, [q EXCEPT !.token = q.new_tokens.access_token,
                                             !.refreshed = q.new_tokens.access_token,
                                             !.new_tokens = NoTokens,
                                             !.revoke = {}, !.stamp = 0])
  /\ UNCHANGED << now, config, users, user_api_keys, ga4_properties, issued >>

(* ------------------------- _get_user_default_property ------------------ *)
ActivePropertyRows(user_id) ==
  {i \in Rows(ga4_properties) :
     ga4_properties[i].user_id = user_id /\ ga4_properties[i].is_active}

OAuthResult(q, property_id) ==
  AuthenticationResult(users[q.user].email, "oauth", q.user, property_id, q.token)

\* mutant: the first query does not filter on is_default
DefaultPropertyRows_any(user_id) ==
  {i \in Rows(ga4_properties) :
     ga4_properties[i].user_id = user_id /\ ga4_properties[i].is_active}

\* select(GoogleAnalyticsProperty).where(user_id, is_active == True, is_default == True)
DefaultPropertyRows(user_id) ==
  {i \in Rows(ga4_properties) :
     /\ ga4_properties[i].user_id = user_id
     /\ ga4_properties[i].is_active
     /\ ga4_properties[i].is_default}

\* mutant: the first of several rows is taken
scalar_one_or_none_first(rows) == [raised |-> FALSE, row |-> First(rows)]

\* result.scalar_one_or_none(): the row, None without rows, and an exception
\* (MultipleResultsFound) with more than one row
scalar_one_or_none(rows) ==
  IF Cardinality(rows) > 1
    THEN [raised |-> TRUE, row |-> NoneId]
    ELSE [raised |-> FALSE, row |-> First(rows)]

\* the identity is returned with the property the queries gave
PropertyFound(r, q, how, property_id) ==
  req' = [req EXCEPT ![r] =
            Finish([q EXCEPT !.propQuery = how], OAuthResult(q, property_id))]

\* the query for the default property returns (or raises; scalar_one_or_none
\* raises on several rows); every exception makes the property None
PropDefault(r) ==
  /\ req[r].pc = "prop_default"
  /\ \E ok \in BOOLEAN :
       LET q == req[r]
           default_property == scalar_one_or_none(DefaultPropertyRows(q.user))
       IN  IF ~ok
             THEN PropertyFound(r, q, "raised", NoneStr)
           ELSE IF default_property.raised
             THEN PropertyFound(r, q, "several", NoneStr)
           ELSE IF default_property.row = NoneId
             THEN req' = [req EXCEPT ![r] = [q EXCEPT !.pc = "prop_first"]]
           ELSE PropertyFound(r, q, "default",
                              ga4_properties[default_property.row].property_id)
  /\ UNCHANGED << now, config, store, limiter >> /\ calls' = << >>

\* the query for an active property with limit(1) returns (or raises); the
\* store returns the rows in no specified order
PropFirst(r) ==
  /\ req[r].pc = "prop_first"
  /\ \E ok \in BOOLEAN :
       LET q == req[r]
           rows == ActivePropertyRows(q.user)
       IN  IF ~ok
             THEN PropertyFound(r, q, "raised", NoneStr)
           ELSE IF rows = {}
             THEN PropertyFound(r, q, "none", NoneStr)
           ELSE \E i \in rows :
                  PropertyFound(r, q, "first", ga4_properties[i].property_id)
  /\ UNCHANGED << now, config, store, limiter >> /\ calls' = << >>

(* ------------------------------ specification -------------------------- *)
Next ==
  \/ Tick
  \/ \E r \in Reqs :
       \/ Start(r)
       \/ Respond(r)
       \/ KeyLookup(r)
       \/ KeyCommit(r)
       \/ OAuthLookup(r)
       \/ RefreshLookup(r)
       \/ RefreshProvider(r)
       \/ RefreshSave(r)
       \/ RefreshCommit(r)
       \/ PropDefault(r)
       \/ PropFirst(r)

Spec == Init /\ [][Next]_vars

(* ------------------------- GA4 adapter and endpoints ------------------- *)
\* the credential built from SERVICE_ACCOUNT_JSON
SERVICE_ACCOUNT == "service_account"

\* f"properties/{property_id}"
PropertyPath(property_id) == "properties/" \o property_id

\* what the GA4 Data API does with one request: rows, no rows, or an error
Outcomes == {"rows", "empty", "failed"}

\* one run_report / run_realtime_report request and its outcome
ApiCall(report, property, credential, outcome) ==
  [report |-> report, property |-> property, credential |-> credential,
   outcome |-> outcome]

\* GA4Service.get_ga4_client: the user's access token for an oauth identity,
\* the service account otherwise
get_ga4_client(auth) ==
  IF auth.user_type = "oauth" THEN auth.access_token ELSE SERVICE_ACCOUNT

\* a request of GA4DataService: self.property_id is GA4_PROPERTY_ID and
\* self.client holds the service account, whoever the caller is
run_report(report, outcome) ==
  ApiCall(report, PropertyPath(GA4_PROPERTY_ID), SERVICE_ACCOUNT, outcome)

\* the value of "rows if response.rows else empty"
Parsed(outcome) == IF outcome = "rows" THEN "data" ELSE "empty"

\* GA4DataService.get_realtime_overview (and the other methods that issue
\* one request and parse its rows into a list or a summary); the result is
\* "raised" when the request failed
GA4DataService_get_realtime_overview(o1) ==
  [sent |-> << run_report("overview", o1) >>,
   result |-> IF o1 = "failed" THEN "raised" ELSE Parsed(o1)]

GA4DataService_get_traffic_sources(o1) ==
  [sent |-> << run_report("traffic_sources", o1) >>,
   result |-> IF o1 = "failed" THEN "raised" ELSE Parsed(o1)]

\* GA4DataService.get_realtime_top_pages: the pagePath report; when it fails
\* or has no rows, the unifiedScreenName report
GA4DataService_get_realtime_top_pages(o1, o2) ==
  IF o1 = "rows"
    THEN [sent |-> << run_report("pagePath", o1) >>, result |-> "data"]
    ELSE [sent |-> << run_report("pagePath", o1),
                      run_report("unifiedScreenName", o2) >>,
          result |-> IF o2 = "failed" THEN "raised" ELSE Parsed(o2)]

\* mutant: a page report without rows is raised as an error
GA4DataService_get_single_page_analytics_raise(o1, o2, o3) ==
  [sent |-> << run_report("single_page", o1) >>,
   result |-> IF o1 = "rows" THEN "data" ELSE "raised"]

\* GA4DataService.get_single_page_analytics: the page report; with rows, the
\* page's traffic sources and device breakdown are queried as well
GA4DataService_get_single_page_analytics(o1, o2, o3) ==
  IF o1 = "failed"
    THEN [sent |-> << run_report("single_page", o1) >>, result |-> "raised"]
  ELSE IF o1 = "empty"
    THEN [sent |-> << run_report("single_page", o1) >>, result |-> "error_key"]
  ELSE IF o2 = "failed"
    THEN [sent |-> << run_report("single_page", o1),
                      run_report("page_traffic_sources", o2) >>,
          result |-> "raised"]
  ELSE [sent |-> << run_report("single_page", o1),
                    run_report("page_traffic_sources", o2),
                    run_report("page_device_breakdown", o3) >>,
        result |-> IF o3 = "failed" THEN "raised" ELSE "data"]

\* the response of a handler: "except Exception" turns every exception into 500
Out(status_code, body, property_id) ==
  [status |-> status_code, body |-> body, property_id |-> property_id, rows |-> {}]

\* the try/except of the routers/analytics.py handlers around a service call
\* that echo auth.ga4_property_id
Echoed(auth, res) ==
  IF res.result = "raised"
    THEN Out(500, "error", NoneStr)
    ELSE Out(200, res.result, auth.ga4_property_id)

Handled(r, e, sent, out) ==
  /\ req' = [req EXCEPT ![r] = [req[r] EXCEPT !.pc = "handled", !.endpoint = e,
                                              !.sent = sent, !.out = out]]
  /\ calls' = << >>
  /\ UNCHANGED << now, config, store, limiter >>

\* an endpoint handler runs once its verify_auth dependency returned an identity
Authenticated(r) == req[r].pc = "done" /\ req[r].resp.status = 200

\* routers/analytics.py get_active_users
get_active_users(r) ==
  /\ Authenticated(r)
  /\ LET auth == req[r].resp IN
     IF ~Truthy(auth.ga4_property_id)
       THEN Handled(r, "active_users", << >>, Out(500, "error", NoneStr))
       ELSE \E o1 \in Outcomes :
              Handled(r, "active_users",
                      << ApiCall("activeUsers", PropertyPath(auth.ga4_property_id),
                                 get_ga4_client(auth), o1) >>,
                      IF o1 = "failed" THEN Out(500, "error", NoneStr)
                      ELSE Out(200, Parsed(o1),
                               IF auth.user_type = "api_key"
                                 THEN NoneStr ELSE auth.ga4_property_id))

\* routers/analytics.py get_realtime_overview
get_realtime_overview(r) ==
  /\ Authenticated(r)
  /\ \E o1 \in Outcomes :
       LET res == GA4DataService_get_realtime_overview(o1) IN
       Handled(r, "realtime_overview", res.sent, Echoed(req[r].resp, res))

\* routers/analytics.py get_realtime_top_pages
get_realtime_top_pages(r) ==
  /\ Authenticated(r)
  /\ \E o1 \in Outcomes, o2 \in Outcomes :
       LET res == GA4DataService_get_realtime_top_pages(o1, o2) IN
       Handled(r, "realtime_top_pages", res.sent, Echoed(req[r].resp, res))

\* routers/analytics.py get_traffic_sources
get_traffic_sources(r) ==
  /\ Authenticated(r)
  /\ \E o1 \in Outcomes :
       LET res == GA4DataService_get_traffic_sources(o1) IN
       Handled(r, "traffic_sources", res.sent, Echoed(req[r].resp, res))

\* main.py get_single_page_analytics, served to the static keys that main.py
\* verify_api_key accepts: a result with an "error" key is returned with
\* status "not_found"
get_single_page_analytics(r) ==
  /\ Authenticated(r)
  /\ req[r].resp.user_type = "api_key"
  /\ \E o1 \in Outcomes, o2 \in Outcomes, o3 \in Outcomes :
       LET res == GA4DataService_get_single_page_analytics(o1, o2, o3) IN
       Handled(r, "single_page", res.sent,
               IF res.result = "raised" THEN Out(500, "error", NoneStr)
               ELSE IF res.result = "error_key" THEN Out(200, "not_found", NoneStr)
               ELSE Out(200, "data", NoneStr))

\* the handler's response is sent
Reply(r) ==
  /\ req[r].pc = "handled"
  /\ req' = Forget(r)
  /\ calls' = << >>
  /\ UNCHANGED << now, config, store, requests, admitted >>

\* an error of the dependency is the response
Reject(r) == req[r].resp.status # 200 /\ Respond(r)

\* the deployments with both modes on
GA4Scenarios ==
  {sc \in Scenarios :
     /\ sc.cfg = Cfg(TRUE, TRUE, TRUE) /\ sc.active = "uk1"
     /\ sc.props \in {"default_last", "no_default"}}

InitGA4 ==
  /\ \E sc \in GA4Scenarios : InitStore(sc)
  /\ max_requests = MaxN
  /\ time_window = MaxW

NextGA4 ==
  \/ Tick
  \/ \E r \in Reqs :
       \/ Start(r)
       \/ Reject(r)
       \/ KeyLookup(r)
       \/ KeyCommit(r)
       \/ OAuthLookup(r)
       \/ RefreshLookup(r)
       \/ RefreshProvider(r)
       \/ RefreshSave(r)
       \/ RefreshCommit(r)
       \/ PropDefault(r)
       \/ PropFirst(r)
       \/ get_active_users(r)
       \/ get_realtime_overview(r)
       \/ get_realtime_top_pages(r)
       \/ get_traffic_sources(r)
       \/ get_single_page_analytics(r)
       \/ Reply(r)

SpecGA4 == InitGA4 /\ [][NextGA4]_vars

(* ------------------------- API key management -------------------------- *)
\* the response of a key-management handler; rows are the key rows it lists,
\* created or changed
KeyOut(status_code, body, rows) ==
  [status |-> status_code, body |-> body, property_id |-> NoneStr, rows |-> rows]

\* the handlers of routers/dashboard.py declare no authentication dependency:
\* they run for every request, whatever credentials it carries
Arrives(r, q, e, out) ==
  /\ \A o \in Reqs : req[o].pc = "idle"
  /\ req' = [req EXCEPT ![r] = [q EXCEPT !.pc = "handled", !.endpoint = e, !.out = out]]
  /\ calls' = << >>

Sends(input) ==
  [ReqIdle EXCEPT !.x_api_key = input[1], !.authorization = input[2]]

\* user_id=1, the fixed user id of the handlers
FixedUserId == 1

\* f"ga4_{secrets.token_urlsafe(32)}": a fresh secret
generate_api_key == "ga4_" \o ToString(Len(user_api_keys) + 1)

\* POST /api/user/api-keys
create_user_api_key(r) ==
  /\ Len(user_api_keys) < Len(InitKeys("uk1")) + MaxKeys
  /\ \E input \in RequestInputs, ok \in BOOLEAN :
       IF ok
         THEN /\ user_api_keys' =
                   Append(user_api_keys,
                          [api_key |-> generate_api_key, user_id |-> FixedUserId,
                           property_id |-> NoneId, is_active |-> TRUE,
                           last_used_at |-> NoTime])
              /\ Arrives(r, Sends(input), "create_user_api_key",
                         KeyOut(200, "created", {Len(user_api_keys) + 1}))
         ELSE /\ UNCHANGED user_api_keys
              /\ Arrives(r, Sends(input), "create_user_api_key", KeyOut(500, "error", {}))
  /\ UNCHANGED << now, config, users, oauth_tokens, ga4_properties, issued, limiter >>

\* select(UserApiKey).where(user_id == 1, is_active == True)
FixedUserKeys ==
  {i \in Rows(user_api_keys) :
     user_api_keys[i].user_id = FixedUserId /\ user_api_keys[i].is_active}

\* GET /api/user/api-keys
get_user_api_keys(r) ==
  /\ \E input \in RequestInputs, ok \in BOOLEAN :
       Arrives(r, Sends(input), "get_user_api_keys",
               IF ok THEN KeyOut(200, "api_keys", FixedUserKeys)
               ELSE KeyOut(500, "error", {}))
  /\ UNCHANGED << now, config, store, limiter >>

\* DELETE /api/user/api-keys/{key_id}
delete_user_api_key(r) ==
  /\ \E input \in RequestInputs, ok \in BOOLEAN,
        key_id \in 1..(Len(user_api_keys) + 1) :
       IF ~ok
         THEN /\ UNCHANGED user_api_keys
              /\ Arrives(r, Sends(input), "delete_user_api_key", KeyOut(500, "error", {}))
       ELSE IF key_id \notin FixedUserKeys
         THEN /\ UNCHANGED user_api_keys
              /\ Arrives(r, Sends(input), "delete_user_api_key", KeyOut(404, "not_found", {}))
       ELSE /\ user_api_keys' = [user_api_keys EXCEPT ![key_id].is_active = FALSE]
            /\ Arrives(r, Sends(input), "delete_user_api_key",
                       KeyOut(200, "deleted", {key_id}))
  /\ UNCHANGED << now, config, users, oauth_tokens, ga4_properties, issued, limiter >>

NextKeys ==
  \E r \in Reqs :
    \/ create_user_api_key(r)
    \/ get_user_api_keys(r)
    \/ delete_user_api_key(r)
    \/ Reply(r)

SpecKeys == InitGA4 /\ [][NextKeys]_vars

(* ------------------------- lifecycle of the rows ----------------------- *)
\* the account that authorizes at the provider (user_info["email"]) and the
\* property lists get_ga4_properties may report for it
Emails == {"u1@example.com"}
PropertyLists == {{}, {"111"}, {"333"}}

\* select(User).where(User.email == email)
UserByEmail(email) == CHOOSE u \in Rows(users) : users[u].email = email

\* the rows db.add() appends for the listed properties not yet stored
RECURSIVE AddProperties(_, _, _)
AddProperties(props, user_id, ids) ==
  IF ids = {} THEN props
  ELSE LET property_id == CHOOSE x \in ids : TRUE IN
       AddProperties(Append(props, [user_id |-> user_id, property_id |-> property_id,
                                    is_default |-> FALSE, is_active |-> TRUE]),
                     user_id, ids \ {property_id})

\* save_ga4_properties: every property of the user is marked inactive, then
\* each listed property is marked active again if the user has a row for it,
\* and added otherwise
save_ga4_properties(user_id, properties) ==
  LET stored == {ga4_properties[i].property_id :
                   i \in {j \in Rows(ga4_properties) : ga4_properties[j].user_id = user_id}}
      updated == [i \in Rows(ga4_properties) |->
                    IF ga4_properties[i].user_id # user_id THEN ga4_properties[i]
                    ELSE [ga4_properties[i] EXCEPT
                            !.is_active = ga4_properties[i].property_id \in properties]]
  IN  AddProperties(updated, user_id, properties \ stored)

\* save_oauth_token: the user's non-revoked rows are marked revoked and the
\* row of the new tokens is added
save_oauth_token(user_id, tokens, expires_at) ==
  Append([i \in Rows(oauth_tokens) |->
            IF i \in LiveTokenRows(user_id)
              THEN [oauth_tokens[i] EXCEPT !.is_revoked = TRUE]
              ELSE oauth_tokens[i]],
         [user_id |-> user_id, access_token |-> tokens.access_token,
          refresh_token |-> tokens.refresh_token,
          expires_at |-> expires_at, is_revoked |-> FALSE])

\* GET /auth/callback: handle_oauth_callback exchanges the code, reads the
\* account and its properties and runs create_or_update_user, whose writes
\* are committed together; any failure leaves the store as it was
google_oauth_callback(r) ==
  /\ cfg.oauth_enabled
  /\ \E ok \in BOOLEAN, email \in Emails, properties \in PropertyLists,
        rt \in {NoneStr, "rt1"} :
       IF ~ok
         THEN /\ UNCHANGED store
              /\ Arrives(r, ReqIdle, "google_oauth_callback", KeyOut(400, "error", {}))
         ELSE LET user_id == UserByEmail(email)
                  tokens == [access_token |-> "new" \o ToString(issued + 1),
                             refresh_token |-> rt]
              IN  /\ issued < MaxIssued
                  /\ issued' = issued + 1
                  /\ users' = [users EXCEPT ![user_id].is_active = TRUE]
                  /\ oauth_tokens' = save_oauth_token(user_id, tokens, now + TokenLifetime)
                  /\ ga4_properties' = IF properties = {} THEN ga4_properties
                                       ELSE save_ga4_properties(user_id, properties)
                  /\ UNCHANGED user_api_keys
                  /\ Arrives(r, ReqIdle, "google_oauth_callback",
                             KeyOut(200, "authorized", {user_id}))
  /\ UNCHANGED << now, config, limiter >>

\* main_v2_old.py DELETE /api/user/properties/{property_id}, served to the
\* resolved identity
delete_user_property(r) ==
  /\ Authenticated(r)
  /\ LET auth == req[r].resp
         Ends(out) == req' = [req EXCEPT ![r] =
                               [req[r] EXCEPT !.pc = "handled",
                                              !.endpoint = "delete_user_property",
                                              !.out = out]]
     IN  IF auth.user_type # "oauth"
           THEN Ends(KeyOut(403, "oauth_only", {})) /\ UNCHANGED ga4_properties
         ELSE \E property_id \in 1..(Len(ga4_properties) + 1), ok \in BOOLEAN :
                LET rows == {i \in Rows(ga4_properties) :
                               /\ i = property_id
                               /\ ga4_properties[i].user_id = auth.user_id
                               /\ ga4_properties[i].is_active}
                IN  IF ~ok
                      THEN Ends(KeyOut(500, "error", {})) /\ UNCHANGED ga4_properties
                    ELSE IF rows = {}
                      THEN Ends(KeyOut(404, "not_found", {})) /\ UNCHANGED ga4_properties
                    ELSE /\ ga4_properties' =
                              [ga4_properties EXCEPT ![property_id].is_active = FALSE]
                         /\ Ends(KeyOut(200, "removed", {property_id}))
  /\ calls' = << >>
  /\ UNCHANGED << now, config, users, oauth_tokens, user_api_keys, issued, limiter >>

\* the credentials presented while the rows change: the key and token values
\* stored in the tables of the users
LifecycleInputs ==
  {<< user_api_keys[i].api_key, NoAuth >> : i \in Rows(user_api_keys)}
  \cup {<< NoneStr, Header("Bearer", oauth_tokens[i].access_token) >> :
           i \in Rows(oauth_tokens)}

\* a request with one of these credentials arrives while no other is being
\* resolved
Present(r) ==
  /\ \A o \in Reqs : req[o].pc = "idle"
  /\ \E input \in LifecycleInputs : Begin(r, input)
  /\ UNCHANGED << now, config, store >>

\* the deployment whose rows are followed, within the lifetime of the token
\* "at1": both modes on, the key "uk1" bound to a property
InitLifecycle ==
  /\ now = 0
  /\ requests = [k \in {} |-> << >>]
  /\ admitted = [k \in {} |-> << >>]
  /\ calls = << >>
  /\ cfg = Cfg(TRUE, TRUE, TRUE)
  /\ users = InitUsers
  /\ oauth_tokens = InitTokens("rt1")
  /\ user_api_keys = InitKeys("uk1")
  /\ ga4_properties = InitProperties("default_last")
  /\ issued = 0
  /\ req = [r \in Reqs |-> ReqIdle]
  /\ clients = [keys |-> {NoneStr}, bearer |-> FALSE]
  /\ max_requests = MaxN
  /\ time_window = MaxW

NextLifecycle ==
  \/ \E r \in Reqs :
       \/ Present(r)
       \/ Respond(r)
       \/ KeyLookup(r)
       \/ KeyCommit(r)
       \/ OAuthLookup(r)
       \/ PropDefault(r)
       \/ PropFirst(r)
       \/ google_oauth_callback(r)
       \/ delete_user_property(r)
       \/ delete_user_api_key(r)
       \/ Reply(r)

SpecLifecycle == InitLifecycle /\ [][NextLifecycle]_vars

(* ------------------------- concurrent requests ------------------------- *)
\* two requests in flight at once, each with its own database session
Slots == {1, 2}

\* a bearer request arrives, whatever the other requests are doing
Arrive(r) ==
  /\ req[r].pc = "idle"
  /\ \E t \in {oauth_tokens[i].access_token : i \in Rows(oauth_tokens)} :
       Begin(r, << NoneStr, Header("Bearer", t) >>)
  /\ UNCHANGED << now, config, store >>

InitConcurrent ==
  /\ now = 0
  /\ requests = [k \in {} |-> << >>]
  /\ admitted = [k \in {} |-> << >>]
  /\ calls = << >>
  /\ cfg = Cfg(TRUE, TRUE, TRUE)
  /\ users = InitUsers
  /\ oauth_tokens = InitTokens("rt1")
  /\ user_api_keys = InitKeys("uk1")
  /\ ga4_properties = InitProperties("default_last")
  /\ issued = 0
  /\ req = [r \in Slots |-> ReqIdle]
  /\ clients = BearerClients
  /\ max_requests = MaxN
  /\ time_window = MaxW

NextConcurrent ==
  \/ Tick
  \/ \E r \in Slots :
       \/ Arrive(r)
       \/ Respond(r)
       \/ OAuthLookup(r)
       \/ RefreshLookup(r)
       \/ RefreshProvider(r)
       \/ RefreshSave(r)
       \/ RefreshCommit(r)
       \/ PropDefault(r)

SpecConcurrent == InitConcurrent /\ [][NextConcurrent]_vars

(* the limiter on its own: every configuration up to the bounds, any caller *)
Identifiers == {"oauth_1", "api_key_sk1"}

InitRL ==
  /\ InitStore(CHOOSE sc \in Scenarios : ~sc.bearer /\ sc.active = "dual")
  /\ max_requests \in 1..MaxN
  /\ time_window \in 1..MaxW

\* rate_limiter.is_allowed(identifier)
Call(identifier) ==
  LET rl == is_allowed(requests, identifier, now) IN
  /\ requests' = rl.requests
  /\ admitted' = Admit(admitted, identifier, now, rl)
  /\ calls' = << CallRec(requests, admitted, identifier, now, rl) >>
  /\ UNCHANGED << now, config, store, req >>

TickRL ==
  /\ now < MaxTime
  /\ now' = now + 1
  /\ UNCHANGED << config, store, requests, admitted, calls, req >>

NextRL == TickRL \/ \E identifier \in Identifiers : Call(identifier)

SpecRL == InitRL /\ [][NextRL]_vars

(* ------------------------------ properties ----------------------------- *)
Range(f) == {f[i] : i \in DOMAIN f}
Count(lst, x) == Cardinality({i \in DOMAIN lst : lst[i] = x})
InWindow(lst, t) == {i \in DOMAIN lst : t - lst[i] < time_window}
IsSuffix(a, b) ==
  /\ Len(a) <= Len(b)
  /\ \A i \in DOMAIN a : a[i] = b[Len(b) - Len(a) + i]
SentBearer(q) == q.authorization.present /\ q.authorization.scheme = "Bearer"
OAuthOn == cfg.ENABLE_OAUTH_MODE /\ cfg.oauth_enabled
\* no row of user_api_keys with this key is active and owned by an active user
NoLiveUserKey(k) ==
  \A i \in DOMAIN user_api_keys :
     ~ /\ user_api_keys[i].api_key = k
       /\ user_api_keys[i].is_active
       /\ users[user_api_keys[i].user_id].is_active
OAuthWindows == {"oauth_" \o ToString(u) : u \in DOMAIN users}
UserKeyWindows == {"user_api_key_" \o ToString(u) : u \in DOMAIN users}

\* C1: a request whose Authorization header starts with "Bearer ", with OAuth
\* enabled and configured, is decided on the OAuth path: the X-API-Key is looked
\* up in neither key table and only an "oauth_<user id>" limiter window is
\* touched, whether or not an X-API-Key was sent.
C1_BearerTakesOAuthPath ==
  \A r \in Reqs :
    (req[r].pc # "idle" /\ SentBearer(req[r]) /\ OAuthOn) =>
       /\ req[r].branch = "oauth"
       /\ req[r].userLookup = "no"
       /\ ~req[r].staticLookup
       /\ \A i \in DOMAIN calls : calls[i].key \in OAuthWindows

C1_Witness ==
  \E r \in Reqs :
    /\ req[r].pc = "done" /\ SentBearer(req[r]) /\ OAuthOn
    /\ Truthy(req[r].x_api_key)
    /\ req[r].resp.status = 200
    /\ req[r].resp.user_type = "oauth"

\* C2: when the X-API-Key matched an active key of an active user and the
\* limiter rejected "user_api_key_<user id>", the resolution fails with 429.
C2_UserKeyRejectedIs429 ==
  \A r \in Reqs :
    (/\ req[r].pc = "done"
     /\ req[r].userLookup = "hit"
     /\ \E i \in DOMAIN calls :
          calls[i].key \in UserKeyWindows /\ ~calls[i].allowed)
    => req[r].resp.status = 429

\* C3: a request with only an X-API-Key that is found in the per-user key table
\* ends without the static table being consulted, and an identity it returns
\* is of type "user_api_key".
C3_UserKeyNeverStatic ==
  \A r \in Reqs :
    (/\ req[r].pc = "done"
     /\ ~req[r].authorization.present
     /\ req[r].userLookup = "hit")
    => /\ ~req[r].staticLookup
       /\ req[r].resp.status = 200 => req[r].resp.user_type = "user_api_key"

\* C4: when the last max_requests admitted calls of an identifier began less
\* than time_window seconds ago, a further call is rejected; when they began
\* more than time_window seconds ago, it is admitted.
C4_WindowSlides ==
  \A i \in DOMAIN calls :
    Len(calls[i].hist) = max_requests =>
      /\ calls[i].now - calls[i].hist[1] < time_window => ~calls[i].allowed
      /\ calls[i].now - calls[i].hist[1] > time_window => calls[i].allowed

C4_Witness ==
  \E i \in DOMAIN calls :
    /\ Len(calls[i].hist) = max_requests
    /\ calls[i].now - calls[i].hist[1] > time_window
    /\ Len(calls[i].before) = max_requests
    /\ calls[i].allowed

\* C5: a step that calls is_allowed for some identifiers leaves the list of
\* every other identifier as it was, and with it the result any later call
\* for that identifier would have.
C5_OtherKeysUntouched ==
  [][\A k \in DOMAIN requests :
       (\A i \in DOMAIN calls' : calls'[i].key # k) =>
          /\ k \in DOMAIN requests'
          /\ requests'[k] = requests[k]
          /\ \A t \in now'..MaxTime :
               is_allowed(requests', k, t).allowed = is_allowed(requests, k, t).allowed]_vars

C5_Witness ==
  \E i \in DOMAIN calls : \E k \in DOMAIN requests :
    /\ k # calls[i].key
    /\ calls[i].allowed
    /\ Len(calls[i].after) = max_requests
    /\ Len(requests[k]) < max_requests

\* C6: a rejected call appends nothing (a call adds its timestamp to the list
\* exactly when it is admitted), so the list of an identifier is always made
\* of admitted timestamps only.
C6_RejectedNotRecorded ==
  /\ \A i \in DOMAIN calls :
       /\ Count(calls[i].after, calls[i].now)
            = Count(calls[i].before, calls[i].now) + (IF calls[i].allowed THEN 1 ELSE 0)
       /\ Len(calls[i].after) <= Len(calls[i].before) + (IF calls[i].allowed THEN 1 ELSE 0)
  /\ \A k \in DOMAIN requests : IsSuffix(requests[k], Bucket(admitted, k))

C6_Witness ==
  \E i \in DOMAIN calls :
    /\ ~calls[i].allowed
    /\ calls[i].now > calls[i].before[Len(calls[i].before)]

\* C7: a key found only in the static table resolves, while fewer than
\* max_requests resolutions of it were admitted within the window, to the
\* identity (alias, "api_key", no user id, default property); otherwise it
\* fails with 429; the count is kept under "api_key_" + key.
C7_StaticKeyLimited ==
  \A r \in Reqs :
    LET q == req[r] IN
    (/\ q.pc = "done" /\ q.branch = "api_key"
     /\ q.x_api_key \in DOMAIN LoadedApiKeys
     /\ NoLiveUserKey(q.x_api_key))
    => /\ Len(calls) = 1
       /\ calls[1].key = "api_key_" \o q.x_api_key
       /\ IF Cardinality(InWindow(calls[1].hist, calls[1].now)) < max_requests
            THEN q.resp = AuthenticationResult(LoadedApiKeys[q.x_api_key], "api_key",
                                               NoneId, GA4_PROPERTY_ID, NoneStr)
            ELSE q.resp.status = 429

C7_Witness ==
  \E r \in Reqs :
    /\ req[r].pc = "done" /\ req[r].branch = "api_key"
    /\ req[r].x_api_key = "sk1"
    /\ req[r].resp.status = 429
    /\ Len(calls) = 1 /\ Len(calls[1].hist) = max_requests

\* C8: an X-API-Key that matches no active key of an active user and no static
\* key fails with 401 and one fixed message, whatever the key.
C8_UnknownKeyUniform401 ==
  \A r \in Reqs :
    LET q == req[r] IN
    (/\ q.pc = "done" /\ q.branch = "api_key"
     /\ NoLiveUserKey(q.x_api_key)
     /\ q.x_api_key \notin DOMAIN LoadedApiKeys)
    => q.resp = HTTPException(401, "invalid_api_key", << >>)

C8_Witness ==
  \E r \in Reqs :
    /\ req[r].pc = "done" /\ req[r].branch = "api_key"
    /\ req[r].x_api_key = "ukdel"
    /\ req[r].userLookup = "miss"
    /\ req[r].resp.status = 401

\* C9: a request with no usable credential fails with 503 exactly when neither
\* OAuth (enabled and configured) nor API-key mode is on; otherwise with 401,
\* its message naming exactly the credential forms that are on.
C9_NoCredential ==
  \A r \in Reqs :
    LET q == req[r] IN
    (/\ q.pc = "done"
     /\ ~(SentBearer(q) /\ OAuthOn)
     /\ ~(Truthy(q.x_api_key) /\ cfg.ENABLE_API_KEY_MODE))
    => /\ q.resp.status \in {401, 503}
       /\ q.resp.status = 503 <=> (~OAuthOn /\ ~cfg.ENABLE_API_KEY_MODE)
       /\ q.resp.status = 401 =>
            /\ "Authorization Bearer token" \in Range(q.resp.missing_auth) <=> OAuthOn
            /\ "X-API-Key header" \in Range(q.resp.missing_auth) <=> cfg.ENABLE_API_KEY_MODE
            /\ Range(q.resp.missing_auth) \subseteq
                 {"Authorization Bearer token", "X-API-Key header"}

C9_Witness ==
  \E r \in Reqs :
    /\ req[r].pc = "done"
    /\ req[r].x_api_key = NoneStr /\ ~req[r].authorization.present
    /\ OAuthOn /\ ~cfg.ENABLE_API_KEY_MODE
    /\ req[r].resp.status = 401
    /\ req[r].resp.missing_auth = << "Authorization Bearer token" >>

\* C10: every resolution ends with an identity or with one of 401, 429, 503,
\* also when a query, a commit or the provider call raised.
C10_OnlyAuthStatuses ==
  \A r \in Reqs :
    req[r].pc = "done" => req[r].resp.status \in {200, 401, 429, 503}

C10_Witness ==
  \E r \in Reqs :
    /\ req[r].pc = "done"
    /\ req[r].resp.status = 401
    /\ req[r].resp.detail = "oauth_failed"

\* the non-revoked token rows of a user
NonRevoked(u) ==
  {i \in DOMAIN oauth_tokens : oauth_tokens[i].user_id = u /\ ~oauth_tokens[i].is_revoked}
LimiterRejected == \E i \in DOMAIN calls : ~calls[i].allowed

C12_NoRefreshTokenIs401 ==
  [][\A r \in Reqs :
       LET q == req'[r] IN
       (/\ q.pc # "idle" /\ q.expired
        /\ oauth_tokens[q.presented].refresh_token = NoneStr)
       => /\ oauth_tokens' = oauth_tokens
          /\ q.pc = "done" => q.resp.status = 401]_vars

C12_Witness ==
  \E r \in Reqs :
    /\ req[r].pc = "done" /\ req[r].expired
    /\ oauth_tokens[req[r].presented].refresh_token = NoneStr
    /\ req[r].resp.status = 401
    /\ req[r].resp.detail = "token_expired"

\* the credential the identity stands for
IdentityCredential(auth) ==
  IF auth.user_type = "oauth" THEN auth.access_token ELSE "service_account"

\* C13: every GA4 API request of an endpoint handler targets the property of
\* the resolved identity and carries the identity's credential (the access
\* token of an oauth identity, the service account otherwise), and a
\* property_id echoed in the response is the property that was queried.
C13_QueriesIdentityProperty ==
  \A r \in Reqs :
    req[r].pc = "handled" =>
      \A i \in DOMAIN req[r].sent :
        LET c == req[r].sent[i] IN
        /\ c.property = "properties/" \o req[r].resp.ga4_property_id
        /\ c.credential = IdentityCredential(req[r].resp)
        /\ req[r].out.property_id # NoneStr =>
              c.property = "properties/" \o req[r].out.property_id

KeyEndpoints == {"create_user_api_key", "get_user_api_keys", "delete_user_api_key"}

\* C14: a key-management request that carries no bearer token (its caller is
\* at best a static-key or user-key identity, never an oauth one) is not
\* carried out: it does not end with 200 and it lists, creates or changes no
\* key row.
C14_KeyManagementOAuthOnly ==
  \A r \in Reqs :
    (/\ req[r].pc = "handled"
     /\ req[r].endpoint \in KeyEndpoints
     /\ ~SentBearer(req[r]))
    => /\ req[r].out.status # 200
       /\ req[r].out.rows = {}

\* C15: an OAuth resolution whose property queries did not fail returns the
\* property id of the user's active default row when there is one, wherever
\* that row stands among the user's rows; one of the user's active rows (the
\* one the store returns first) when none is flagged default; and no property
\* when the user has no active row.  Once the property is looked up the
\* resolution ends with an oauth identity in every case.
C15_DefaultPropertyPreferred ==
  \A r \in Reqs :
    LET q == req[r] IN
    (q.pc = "done" /\ q.propQuery # "no") =>
      /\ q.resp.status = 200 /\ q.resp.user_type = "oauth"
      /\ q.propQuery # "raised" =>
           LET A == {i \in DOMAIN ga4_properties :
                       /\ ga4_properties[i].user_id = q.resp.user_id
                       /\ ga4_properties[i].is_active}
               D == {i \in A : ga4_properties[i].is_default}
           IN  /\ Cardinality(D) = 1 =>
                    \A i \in D : q.resp.ga4_property_id = ga4_properties[i].property_id
               /\ (D = {} /\ A # {}) =>
                    \E i \in A : q.resp.ga4_property_id = ga4_properties[i].property_id
               /\ A = {} => q.resp.ga4_property_id = NoneStr

C15_Witness ==
  \E r \in Reqs :
    /\ req[r].pc = "done" /\ req[r].propQuery = "default"
    /\ ga4_properties[1].is_active /\ ~ga4_properties[1].is_default
    /\ ga4_properties[2].is_active /\ ga4_properties[2].is_default
    /\ req[r].resp.ga4_property_id = ga4_properties[2].property_id

\* C16: a successful user-key resolution carries the property id of the row
\* the key is bound to, or GA4_PROPERTY_ID when the key is bound to no
\* property; it never carries no property.
C16_UserKeyProperty ==
  \A r \in Reqs :
    LET q == req[r] IN
    (q.pc = "done" /\ q.resp.status = 200 /\ q.resp.user_type = "user_api_key") =>
      /\ q.resp.ga4_property_id # NoneStr
      /\ \A i \in DOMAIN user_api_keys :
           (user_api_keys[i].api_key = q.x_api_key /\ user_api_keys[i].is_active) =>
             q.resp.ga4_property_id =
               IF user_api_keys[i].property_id = NoneId
                 THEN GA4_PROPERTY_ID
                 ELSE ga4_properties[user_api_keys[i].property_id].property_id

C16_Witness ==
  \E r \in Reqs :
    /\ req[r].pc = "done" /\ req[r].resp.user_type = "user_api_key"
    /\ req[r].x_api_key = "dual"
    /\ user_api_keys[1].property_id = NoneId
    /\ req[r].resp.ga4_property_id = GA4_PROPERTY_ID

AnalyticsEndpoints ==
  {"active_users", "realtime_overview", "realtime_top_pages", "traffic_sources",
   "single_page"}

\* C17: an analytics handler that queries GA4 issues exactly one GA4 API
\* request, whatever comes back (none only when it refuses the query for lack
\* of a property).
C17_OneRequestPerQuery ==
  \A r \in Reqs :
    (req[r].pc = "handled" /\ req[r].endpoint \in AnalyticsEndpoints) =>
      \/ Len(req[r].sent) = 1
      \/ Len(req[r].sent) = 0 /\ req[r].resp.ga4_property_id \in {NoneStr, ""}

\* C18: a query none of whose GA4 requests failed ends with a 200 response;
\* when its GA4 responses had no rows the response carries an empty list or a
\* zeroed summary, and for the single-page lookup the status "not_found".
C18_EmptyIsNotAnError ==
  \A r \in Reqs :
    LET q == req[r] IN
    (/\ q.pc = "handled" /\ q.endpoint \in AnalyticsEndpoints
     /\ q.sent # << >>
     /\ \A i \in DOMAIN q.sent : q.sent[i].outcome # "failed")
    => /\ q.out.status = 200
       /\ (\A i \in DOMAIN q.sent : q.sent[i].outcome = "empty") =>
             q.out.body = IF q.endpoint = "single_page" THEN "not_found" ELSE "empty"

C18_Witness ==
  \E r \in Reqs :
    /\ req[r].pc = "handled" /\ req[r].endpoint = "single_page"
    /\ Len(req[r].sent) = 1 /\ req[r].sent[1].outcome = "empty"
    /\ req[r].out.status = 200 /\ req[r].out.body = "not_found"

\* C19: every user has at most one non-revoked OAuth token row, also while
\* two requests that refresh the user's token are in flight together.
C19_OneLiveTokenPerUser ==
  \A u \in DOMAIN users : Cardinality(NonRevoked(u)) <= 1

\* C20: a user-key identity is returned only once the write of last_used_at
\* is committed, and a request whose commit of last_used_at failed does not
\* end with an identity of any type.
C20_NoIdentityWithoutCommit ==
  \A r \in Reqs :
    LET q == req[r] IN
    q.pc = "done" =>
      /\ (q.resp.status = 200 /\ q.resp.user_type = "user_api_key") =>
            /\ q.keyCommit = "ok"
            /\ \E i \in DOMAIN user_api_keys :
                 /\ user_api_keys[i].api_key = q.x_api_key
                 /\ user_api_keys[i].last_used_at # NoTime
      /\ q.keyCommit = "failed" => q.resp.status # 200

\* C21: a resolution that ends with 401 leaves every list of the limiter as
\* the request found it.
C21_UnauthorizedLeavesLimiter ==
  \A r \in Reqs :
    (req[r].pc = "done" /\ req[r].resp.status = 401) =>
       requests = req[r].before.requests

\* C22: a resolution that ends with 429 leaves the token and key tables as
\* the request found them: no token row inserted or revoked, no last_used_at
\* written.
C22_TooManyRequestsLeavesStore ==
  \A r \in Reqs :
    (req[r].pc = "done" /\ req[r].resp.status = 429) =>
       /\ oauth_tokens = req[r].before.oauth_tokens
       /\ user_api_keys = req[r].before.user_api_keys

\* C23: of two requests of one identity, the one that arrived first has its
\* limiter check applied first: no request makes the limiter check of an
\* identifier ahead of a request that arrived earlier and checks the same
\* identifier.
C23_LimiterInArrivalOrder ==
  \A r \in DOMAIN req : \A o \in req[r].overtook :
    req[o].limKey = NoneStr \/ req[o].limKey # req[r].limKey

\* C24: whatever the interleaving of the requests being resolved, a limiter
\* check reads the list exactly as the previous check of the identifier left
\* it and its result is stored before any other step runs, so a call is
\* admitted only when fewer than max_requests admitted calls of the identifier
\* lie within time_window before it.
C24_CheckAndRecordAtomic ==
  [][\A i \in DOMAIN calls' :
       /\ calls'[i].before = Bucket(requests, calls'[i].key)
       /\ calls'[i].after = Bucket(requests', calls'[i].key)
       /\ calls'[i].allowed =>
            Cardinality(InWindow(calls'[i].hist, calls'[i].now)) < max_requests]_vars

\* two requests that arrived while the list had one free slot: one took it,
\* the other is rejected
C24_Witness ==
  \E r \in DOMAIN req : \E o \in DOMAIN req \ {r} :
    /\ req[o].pc = "done" /\ req[o].resp.status = 429
    /\ req[r].pc # "idle" /\ req[r].limKey = req[o].limKey
    /\ r \in req[o].ahead \/ o \in req[r].ahead
    /\ req[r].before.requests = req[o].before.requests
    /\ Len(Prune(Bucket(req[o].before.requests, req[o].limKey), now)) = max_requests - 1
    /\ LimiterRejected

\* C25: right after an is_allowed call for an identifier, its list holds at
\* most max_requests timestamps, each less than time_window before the call;
\* the list of every other identifier is left as it was, stale timestamps
\* included, until that identifier is checked.
C25_ListBoundedAndFresh ==
  [][/\ \A i \in DOMAIN calls' :
          LET lst == Bucket(requests', calls'[i].key) IN
          calls' # calls =>
            /\ Len(lst) <= max_requests
            /\ \A j \in DOMAIN lst : now' - lst[j] < time_window
     /\ \A k \in DOMAIN requests :
          (calls' = calls \/ \A i \in DOMAIN calls' : calls'[i].key # k) =>
             k \in DOMAIN requests' /\ requests'[k] = requests[k]]_vars

\* a call dropped stale timestamps from its own list while the list of
\* another identifier still holds one
C25_Witness ==
  \E i \in DOMAIN calls : \E k \in DOMAIN requests \ {calls[i].key} :
    /\ calls[i].now = now
    /\ \E j \in DOMAIN calls[i].before : now - calls[i].before[j] >= time_window
    /\ \A j \in DOMAIN calls[i].after : now - calls[i].after[j] < time_window
    /\ \E j \in DOMAIN requests[k] : now - requests[k][j] >= time_window

\* C26: the soft-delete flags only go one way: no step turns a revoked token
\* row into a non-revoked one, nor an inactive key or property row into an
\* active one.
C26_SoftDeleteOneWay ==
  [][/\ \A i \in DOMAIN oauth_tokens :
          oauth_tokens[i].is_revoked => oauth_tokens'[i].is_revoked
     /\ \A i \in DOMAIN user_api_keys :
          ~user_api_keys[i].is_active => ~user_api_keys'[i].is_active
     /\ \A i \in DOMAIN ga4_properties :
          ~ga4_properties[i].is_active => ~ga4_properties'[i].is_active]_vars

\* C27: an oauth identity is returned only for a bearer token that matched,
\* when the request arrived, a non-revoked token row of an active user, and a
\* user-key identity only for a key that matched an active key row of an
\* active user; a key whose rows are all soft-deleted and that is not a static
\* key ends with 401.
C27_NoIdentityFromDeadRows ==
  \A r \in Reqs :
    LET q == req[r]
        tokens == q.before.oauth_tokens
        keys == q.before.user_api_keys
    IN  q.pc = "done" =>
          /\ (q.resp.status = 200 /\ q.resp.user_type = "oauth") =>
                \E i \in DOMAIN tokens :
                  /\ tokens[i].access_token = q.authorization.token
                  /\ ~tokens[i].is_revoked
                  /\ users[tokens[i].user_id].is_active
                  /\ q.resp.user_id = tokens[i].user_id
          /\ (q.resp.status = 200 /\ q.resp.user_type = "user_api_key") =>
                \E i \in DOMAIN keys :
                  /\ keys[i].api_key = q.x_api_key
                  /\ keys[i].is_active
                  /\ users[keys[i].user_id].is_active
                  /\ q.resp.user_id = keys[i].user_id
          /\ (/\ q.branch = "api_key"
              /\ q.x_api_key \notin DOMAIN LoadedApiKeys
              /\ \A i \in DOMAIN keys :
                   keys[i].api_key = q.x_api_key => ~keys[i].is_active) =>
                q.resp.status = 401

\* the key "uk1" was used, then soft-deleted, and is presented again; the
\* token "at1" was revoked by an exchange and is presented again
C27_Witness ==
  \E r \in Reqs :
    /\ req[r].pc = "done" /\ req[r].resp.status = 401
    /\ user_api_keys[1].last_used_at # NoTime
    /\ oauth_tokens[1].is_revoked
    /\ \/ /\ req[r].x_api_key = "uk1" /\ req[r].branch = "api_key"
          /\ ~req[r].before.user_api_keys[1].is_active
       \/ /\ req[r].authorization.token = "at1" /\ req[r].branch = "oauth"
          /\ req[r].before.oauth_tokens[1].is_revoked

\* the token rows that were revoked since the service started
RevokedSinceInit(tokens) ==
  {i \in DOMAIN tokens :
     /\ tokens[i].is_revoked
     /\ i \in DOMAIN InitTokens(NoneStr) => ~InitTokens(NoneStr)[i].is_revoked}

\* C28: once a request presenting an expired token went through a refresh,
\* no non-revoked row holds the presented token and the identity carries a
\* different access token; a later request presenting a token whose row was
\* revoked that way ends with 401 and no refresh: the token a client holds
\* survives one refresh at most.
C28_TokenSurvivesOneRefresh ==
  \A r \in Reqs :
    LET q == req[r]
        tokens == q.before.oauth_tokens
    IN  q.pc = "done" =>
          /\ (q.expired /\ q.refreshed # NoneStr) =>
                /\ \A i \in DOMAIN oauth_tokens :
                     oauth_tokens[i].access_token = q.authorization.token
                       => oauth_tokens[i].is_revoked
                /\ q.resp.status = 200 => q.resp.access_token # q.authorization.token
          /\ (/\ q.branch = "oauth"
              /\ \E i \in RevokedSinceInit(tokens) :
                   tokens[i].access_token = q.authorization.token) =>
                /\ q.resp.status = 401
                /\ q.resp.detail \in {"invalid_token", "oauth_failed"}
                /\ q.refreshed = NoneStr
                /\ oauth_tokens = tokens

\* "at1" was refreshed by an earlier request and is presented again
C28_Witness ==
  \E r \in Reqs :
    /\ req[r].pc = "done" /\ req[r].branch = "oauth"
    /\ req[r].authorization.token = "at1"
    /\ 1 \in RevokedSinceInit(req[r].before.oauth_tokens)
    /\ req[r].resp.status = 401 /\ req[r].resp.detail = "invalid_token"
    /\ \E i \in DOMAIN oauth_tokens :
         oauth_tokens[i].access_token = "new1" /\ ~oauth_tokens[i].is_revoked

\* C29: when two or more active properties of the user are flagged default,
\* the OAuth resolution that reaches the property lookup still ends with an
\* oauth identity, and the identity carries no property: neither one of the
\* default rows nor another active row.
C29_TwoDefaultsGiveNoProperty ==
  \A r \in Reqs :
    LET q == req[r]
        D == {i \in DOMAIN ga4_properties :
                /\ ga4_properties[i].user_id = q.resp.user_id
                /\ ga4_properties[i].is_active
                /\ ga4_properties[i].is_default}
    IN  (q.pc = "done" /\ q.propQuery # "no" /\ Cardinality(D) >= 2) =>
          /\ q.resp.status = 200 /\ q.resp.user_type = "oauth"
          /\ q.resp.ga4_property_id = NoneStr
          /\ q.propQuery \in {"several", "raised"}

C29_Witness ==
  \E r \in Reqs :
    /\ req[r].pc = "done" /\ req[r].propQuery = "several"
    /\ \A i \in {1, 2} : /\ ga4_properties[i].user_id = req[r].resp.user_id
                          /\ ga4_properties[i].is_active
                          /\ ga4_properties[i].is_default
    /\ req[r].resp.status = 200 /\ req[r].resp.user_type = "oauth"
    /\ req[r].resp.ga4_property_id = NoneStr

\* C30: a user-key resolution with a key bound to a property that has been
\* deactivated still returns the external id of that property.
C30_KeyKeepsInactiveProperty ==
  \A r \in Reqs :
    LET q == req[r] IN
    (q.pc = "done" /\ q.resp.status = 200 /\ q.resp.user_type = "user_api_key") =>
      \A i \in DOMAIN user_api_keys :
        (/\ user_api_keys[i].api_key = q.x_api_key
         /\ user_api_keys[i].is_active
         /\ user_api_keys[i].property_id # NoneId
         /\ ~ga4_properties[user_api_keys[i].property_id].is_active) =>
           q.resp.ga4_property_id =
             ga4_properties[user_api_keys[i].property_id].property_id

\* the property of "uk1" was active, was deactivated, and the key resolves
C30_Witness ==
  \E r \in Reqs :
    /\ req[r].pc = "done" /\ req[r].resp.status = 200
    /\ req[r].resp.user_type = "user_api_key" /\ req[r].x_api_key = "uk1"
    /\ user_api_keys[1].property_id = 1
    /\ InitProperties("default_last")[1].is_active
    /\ ~ga4_properties[1].is_active
    /\ req[r].resp.ga4_property_id = "111"

====
